---- MODULE Spec2Model ----
(***************************************************************************)
(* Model of the health-check surface of relivator-docker-frontend:         *)
(*   - src/server/health.ts in its two builds (src/unnamed/part_000, which *)
(*     exports handler and checkBackendHealth, and src/unnamed/part_001,   *)
(*     which exports handler only);                                        *)
(*   - src/app/api/health/route.ts, the GET route built on part_000.       *)
(*                                                                         *)
(* JavaScript strings that the code inspects (digest.startsWith, the       *)
(* substring of the commit sha) are tuples of one-character strings, so    *)
(* that startsWith and substring are computed.  Optional values            *)
(* (undefined / unset) are the empty set, a present value v is {v}.        *)
(* An async function runs atomically from one await to the next, so one    *)
(* action is one such run.                                                  *)
(***************************************************************************)
EXTENDS Integers, Sequences, FiniteSets, TLC

\* ---------------------------------------------------------------- bounds
MaxReqs == 1      \* invocations of the wrapped handler (they may overlap)
MaxTime == 1      \* the clock (ms) runs from 0 to MaxTime
MaxIssues == 2    \* longest issue list carried by a ZodError
MaxShaLen == 8    \* longest commit identifier in the environment

Reqs == 1..MaxReqs

\* ---------------------------------------------------------------- strings
Min(a, b) == IF a < b THEN a ELSE b
Max(a, b) == IF a > b THEN a ELSE b

\* String.prototype.startsWith
startsWith(s, prefix) ==
  /\ Len(s) >= Len(prefix)
  /\ SubSeq(s, 1, Len(prefix)) = prefix

\* String.prototype.substring(start, end): both indices are clamped to
\* [0, length] and swapped when start > end; characters start..end-1 (0-based).
substring(s, start, end) ==
  LET a == Min(Max(start, 0), Len(s))
      b == Min(Max(end, 0), Len(s))
  IN SubSeq(s, Min(a, b) + 1, Max(a, b))

\* a ?? b
Coalesce(opt, default) == IF opt = {} THEN default ELSE CHOOSE v \in opt : TRUE

NEXT_ == <<"N", "E", "X", "T", "_">>
LOCAL_ == <<"l", "o", "c", "a", "l">>
HexChars == <<"0", "1", "2", "3", "4", "5", "6", "7", "8", "9",
              "a", "b", "c", "d", "e", "f">>

\* A commit identifier of n characters, every position a different character.
ShaOfLen(n) == [i \in 1..n |-> HexChars[((i - 1) % 16) + 1]]

\* process.env.VERCEL_GIT_COMMIT_SHA: unset, or a string of 0..MaxShaLen chars.
ShaEnvValues == {{}} \cup {{ShaOfLen(n)} : n \in 0..MaxShaLen}

\* ---------------------------------------------------------------- thrown values
\* A thrown value is a record
\*   class   : "none" (not an Error: a thrown string or plain object),
\*             "Error", "ZodError" or "ApiError" (the last two extend Error)
\*   digest  : [present, type, chars] - the own property `digest`, if any
\*   message : its message
\*   status  : the ApiError field (500 unless assigned)
\*   issues  : the ZodError issue list
NoDigest == [present |-> FALSE, type |-> "undefined", chars |-> <<>>]
StrDigest(cs) == [present |-> TRUE, type |-> "string", chars |-> cs]
NumDigest == [present |-> TRUE, type |-> "number", chars |-> <<>>]

Digests ==
  { NoDigest,
    NumDigest,
    StrDigest(NEXT_ \o <<"R">>),          \* "NEXT_R..." (redirect, not found)
    StrDigest(<<"N", "E", "X", "T">>),    \* shorter than the reserved prefix
    StrDigest(<<"x">> \o NEXT_) }         \* the token, but not as a prefix

Messages == {"boom", "db password"}
Issues == {"too_small", "invalid_type"}

SeqsUpTo(S, n) == UNION {[1..k -> S] : k \in 0..n}

ApiErrorDefaultStatus == 500

\* new ApiError(message?) followed by an optional assignment to .status
ApiError(messageArg, statusArg, digest) ==
  [class |-> "ApiError",
   digest |-> digest,
   message |-> Coalesce(messageArg, "Internal Error"),
   status |-> Coalesce(statusArg, ApiErrorDefaultStatus),
   issues |-> <<>>]

ZodError(issues, digest) ==
  [class |-> "ZodError", digest |-> digest, message |-> "zod",
   status |-> 0, issues |-> issues]

PlainError(message, digest) ==
  [class |-> "Error", digest |-> digest, message |-> message,
   status |-> 0, issues |-> <<>>]

NonError(message, digest) ==
  [class |-> "none", digest |-> digest, message |-> message,
   status |-> 0, issues |-> <<>>]

ApiStatuses == {{}, {401}, {404}}
ApiMessages == {{}, {"Unauthorized"}}

Thrown ==
  {ApiError(m, s, d) : m \in ApiMessages, s \in ApiStatuses, d \in Digests}
  \cup {ZodError(i, d) : i \in SeqsUpTo(Issues, MaxIssues), d \in Digests}
  \cup {PlainError(m, d) : m \in Messages, d \in Digests}
  \cup {NonError("boom", d) : d \in Digests}

instanceofError(e) == e.class \in {"Error", "ZodError", "ApiError"}
instanceofZodError(e) == e.class = "ZodError"

isNextJsError_NoInstanceof(e) ==
  /\ e.digest.present
  /\ e.digest.type = "string"
  /\ startsWith(e.digest.chars, NEXT_)

isNextJsError(e) ==
  /\ instanceofError(e)
  /\ e.digest.present
  /\ e.digest.type = "string"
  /\ startsWith(e.digest.chars, NEXT_)

isApiError(e) == e.class = "ApiError"

\* ---------------------------------------------------------------- responses
\* NextResponse.json(body, init?): the status is init.status, 200 without init.
NextResponseJson(body, init) ==
  [status |-> Coalesce(init, 200), body |-> body]

\* ---------------------------------------------------------------- state
VARIABLES
  NODE_ENV,      \* env.NODE_ENV, read once when health.ts is loaded
  VERCEL_GIT_COMMIT_SHA, \* process.env.VERCEL_GIT_COMMIT_SHA: {} when unset
  build,         \* which health.ts is deployed: "part_000" or "part_001"
  now,           \* the clock, new Date().getTime()
  startTime,     \* the const of handler(): {} until the wrapper is created
  routeHandler,  \* the inner handler of the deployed route module
  gitSha,        \* the const of route.ts
  pc,            \* where each invocation of the wrapped handler stands
  request,       \* each invocation's request: method and nextUrl.pathname
  net,           \* each invocation's outbound fetch: request or reply in flight
  response,      \* the local `response` of the wrapped handler: {} or {r}
  responseTime,  \* the local `responseTime` of the wrapped handler
  backendHealth, \* the last value checkBackendHealth returned: {} or {s}
  raised,        \* what the invocation raised to its caller: {} or {e}
  console,       \* the lines each invocation wrote to the process streams, in order
  invokedAt,     \* the time at which each invocation started
  fetches        \* how many GETs each invocation has issued

vars == <<NODE_ENV, VERCEL_GIT_COMMIT_SHA, build, now, startTime, routeHandler, gitSha, pc, request,
          net, response, responseTime, backendHealth, raised, console,
          invokedAt, fetches>>

NEXT_PUBLIC_BACKEND_URL == "http://backend"

NoMsg == [kind |-> "none"]
TransportFailure == [kind |-> "failure"]
HttpReply(status) == [kind |-> "response", status |-> status]

\* What the backend may answer: statuses around the 2xx range, or nothing.
BackendStatuses == {200, 299, 300, 500}
Replies == {HttpReply(s) : s \in BackendStatuses} \cup {TransportFailure}

\* ---------------------------------------------------------------- logging
\* console.info / console.error: one line on the process stream.
ConsoleCall(line) == <<line>>

\* logger.<level>(...): a no-op object under NODE_ENV "test", else console.
logger(line) == IF NODE_ENV = "test" THEN <<>> ELSE ConsoleCall(line)

\* ---------------------------------------------------------------- classifier
Reverse(q) == [i \in 1..Len(q) |-> q[Len(q) + 1 - i]]

ValidationResponse_Reversed(err) ==
  NextResponseJson(
    [ok |-> FALSE, error |-> "Validation Error", issues |-> Reverse(err.issues)],
    {400})

\* The ZodError branch of buildErrorResponse.
ValidationResponse(err) ==
  NextResponseJson(
    [ok |-> FALSE, error |-> "Validation Error", issues |-> err.issues],
    {400})

ApiErrorResponse_Always500(err) ==
  NextResponseJson([ok |-> FALSE, error |-> err.message], {500})

\* The ApiError branch of buildErrorResponse.
ApiErrorResponse(err) ==
  NextResponseJson([ok |-> FALSE, error |-> err.message], {err.status})

UnknownResponse_Leak(err) ==
  NextResponseJson([ok |-> FALSE, error |-> err.message], {500})

\* The last branch of buildErrorResponse.
UnknownResponse(err) ==
  NextResponseJson([ok |-> FALSE, error |-> "Internal server error"], {500})

UnhandledLine(r, err) ==
  [req |-> r, level |-> "error", kind |-> "unhandled",
   label |-> "Unhandled API Error", err |-> err]

buildErrorResponse_ZodFirst(err, r) ==
  IF instanceofZodError(err) THEN
    [thrown |-> {}, response |-> {ValidationResponse(err)}, logs |-> <<>>]
  ELSE IF isNextJsError(err) THEN
    [thrown |-> {err}, response |-> {}, logs |-> <<>>]
  ELSE IF isApiError(err) THEN
    [thrown |-> {}, response |-> {ApiErrorResponse(err)}, logs |-> <<>>]
  ELSE
    [thrown |-> {}, response |-> {UnknownResponse(err)},
     logs |-> logger(UnhandledLine(r, err))]

\* buildErrorResponse(err): throws err, or returns a response; `logs` are the
\* lines it writes on the way.
buildErrorResponse(err, r) ==
  IF isNextJsError(err) THEN
    [thrown |-> {err}, response |-> {}, logs |-> <<>>]
  ELSE IF instanceofZodError(err) THEN
    [thrown |-> {}, response |-> {ValidationResponse(err)}, logs |-> <<>>]
  ELSE IF isApiError(err) THEN
    [thrown |-> {}, response |-> {ApiErrorResponse(err)}, logs |-> <<>>]
  ELSE
    [thrown |-> {}, response |-> {UnknownResponse(err)},
     logs |-> logger(UnhandledLine(r, err))]

\* ---------------------------------------------------------------- prober
ResponseOk_Only200(status) == status = 200

\* Response.ok of the transport: the status is in 200..299.
ResponseOk(status) == status >= 200 /\ status < 300

\* checkBackendHealth up to its await: the GET it issues.
checkBackendHealthFetch ==
  [kind |-> "request",
   method |-> "GET",
   url |-> <<NEXT_PUBLIC_BACKEND_URL, "/backend-health">>,
   contentType |-> "application/json"]

\* checkBackendHealth after its await: the verdict, and the line it writes
\* with console.error when fetch rejected.
checkBackendHealthResult(reply, r) ==
  IF reply.kind = "response" THEN
    [result |-> IF ResponseOk(reply.status) THEN "Backend is healthy"
                ELSE "Backend is unhealthy",
     logs |-> <<>>]
  ELSE
    [result |-> "Backend is unhealthy",
     logs |-> ConsoleCall([req |-> r, level |-> "error", kind |-> "probe_error",
                           label |-> "Error checking backend health:"])]

\* ---------------------------------------------------------------- routes
\* The inner handlers a wrapper may be given.  The health route is route.ts;
\* any other handler returns a response of its own or throws a value.
OwnResponses ==
  { NextResponseJson([ok |-> TRUE, data |-> "items"], {}),
    NextResponseJson([ok |-> TRUE, data |-> "created"], {201}) }

HealthRoute == [kind |-> "health"]
OtherRoutes ==
  {[kind |-> "returns", response |-> o] : o \in OwnResponses}
  \cup {[kind |-> "throws", err |-> e] : e \in Thrown}

\* The route module a deployment may hold.  route.ts imports
\* checkBackendHealth, which only part_000 exports.
Routes(b) == IF b = "part_000" THEN {HealthRoute} \cup OtherRoutes ELSE OtherRoutes

GET_FullSha(health) ==
  NextResponseJson(
    [ok |-> TRUE,
     data |-> [backendHealth |-> health, frontendHealth |-> gitSha]],
    {})

\* The body of the GET route after its await of checkBackendHealth.
GET(health) ==
  NextResponseJson(
    [ok |-> TRUE,
     data |-> [backendHealth |-> health,
               frontendHealth |-> substring(gitSha, 0, 7)]],
    {})

\* ---------------------------------------------------------------- lines
IncomingLine(r, req) ==
  [req |-> r, level |-> "info", kind |-> "incoming",
   method |-> req.method, url |-> req.pathname]

CompletedLine(r, req, status, ms) ==
  [req |-> r, level |-> "info", kind |-> "completed",
   method |-> req.method, url |-> req.pathname, status |-> status, ms |-> ms]

BackendLine(r, req, health) ==
  [req |-> r, level |-> "info", kind |-> "backend",
   method |-> req.method, url |-> req.pathname,
   icon |-> IF health = "Backend is healthy" THEN "ok" ELSE "x",
   health |-> health]

\* ---------------------------------------------------------------- actions
Init ==
  /\ NODE_ENV \in {"test", "production"}
  /\ build \in {"part_000", "part_001"}
  /\ routeHandler \in Routes(build)
  /\ VERCEL_GIT_COMMIT_SHA \in IF routeHandler = HealthRoute
                               THEN ShaEnvValues ELSE {{}}
  /\ now = 0
  /\ startTime = {}
  /\ gitSha = <<>>
  /\ pc = [r \in Reqs |-> "idle"]
  /\ request = [r \in Reqs |-> [method |-> "GET", pathname |-> "/api/health"]]
  /\ net = [r \in Reqs |-> NoMsg]
  /\ response = [r \in Reqs |-> {}]
  /\ responseTime = [r \in Reqs |-> 0]
  /\ backendHealth = [r \in Reqs |-> {}]
  /\ raised = [r \in Reqs |-> {}]
  /\ console = [r \in Reqs |-> <<>>]
  /\ invokedAt = [r \in Reqs |-> 0]
  /\ fetches = [r \in Reqs |-> 0]

\* The clock advances.  Its origin is the moment the route module is loaded:
\* only differences of times are observable.
Tick ==
  /\ startTime # {}
  /\ now < MaxTime
  /\ now' = now + 1
  /\ UNCHANGED <<NODE_ENV, VERCEL_GIT_COMMIT_SHA, build, startTime,
                 routeHandler, gitSha, pc, request, net, response, responseTime, backendHealth, raised, console,
                 invokedAt, fetches>>

\* handler(routeHandler): the start time is taken here, when the wrapper is
\* made, and the returned closure reads it on every invocation.
handler(rh) ==
  /\ startTime = {}
  /\ startTime' = {now}
  /\ routeHandler' = rh

\* The route module is loaded: route.ts reads gitSha from the environment;
\* the route's handler is wrapped.
LoadRoute ==
  /\ gitSha' = IF routeHandler = HealthRoute
               THEN Coalesce(VERCEL_GIT_COMMIT_SHA, LOCAL_) ELSE gitSha
  /\ handler(routeHandler)
  /\ UNCHANGED <<NODE_ENV, VERCEL_GIT_COMMIT_SHA, build, now, pc,
                 request, net, response, responseTime, backendHealth, raised,
                 console, invokedAt, fetches>>

\* The wrapped handler is invoked: it logs the incoming line and calls the
\* inner handler, which runs to its first await (for the health route, the
\* fetch of checkBackendHealth).
Invoke(r) ==
  /\ startTime # {}
  /\ pc[r] = "idle"
  /\ \E req \in IF routeHandler.kind = "health"
                THEN {[method |-> "GET", pathname |-> "/api/health"]}
                ELSE {[method |-> "POST", pathname |-> "/api/items"]} :
       /\ request' = [request EXCEPT ![r] = req]
       /\ console' = [console EXCEPT ![r] = @ \o logger(IncomingLine(r, req))]
  /\ invokedAt' = [invokedAt EXCEPT ![r] = now]
  /\ IF routeHandler.kind = "health"
     THEN /\ pc' = [pc EXCEPT ![r] = "inner_fetch"]
          /\ net' = [net EXCEPT ![r] = checkBackendHealthFetch]
          /\ fetches' = [fetches EXCEPT ![r] = @ + 1]
     ELSE /\ pc' = [pc EXCEPT ![r] = "inner"]
          /\ UNCHANGED <<net, fetches>>
  /\ UNCHANGED <<NODE_ENV, VERCEL_GIT_COMMIT_SHA, build, now, startTime,
                 routeHandler, gitSha,
                 response, responseTime, backendHealth, raised>>

\* The backend answers the GET in flight, or the transport fails.
Deliver(r) ==
  /\ net[r].kind = "request"
  /\ \E reply \in Replies : net' = [net EXCEPT ![r] = reply]
  /\ UNCHANGED <<NODE_ENV, VERCEL_GIT_COMMIT_SHA, build, now, startTime,
                 routeHandler, gitSha, pc,
                 request, response, responseTime, backendHealth, raised,
                 console, invokedAt, fetches>>

Continue_CompletedFirst(r, settled, innerLogs) ==
  IF settled.thrown # {}
  THEN \* buildErrorResponse threw inside the catch block: the call rejects
       /\ pc' = [pc EXCEPT ![r] = "raised"]
       /\ raised' = [raised EXCEPT ![r] = settled.thrown]
       /\ console' = [console EXCEPT ![r] = @ \o innerLogs \o settled.logs]
       /\ UNCHANGED <<response, responseTime, net, fetches>>
  ELSE LET resp == CHOOSE x \in settled.response : TRUE
           ms == now - Coalesce(startTime, 0)
       IN /\ response' = [response EXCEPT ![r] = {resp}]
          /\ responseTime' = [responseTime EXCEPT ![r] = ms]
          /\ console' = [console EXCEPT ![r] =
                          @ \o logger(CompletedLine(r, request[r], resp.status, ms))
                            \o innerLogs \o settled.logs]
          /\ UNCHANGED raised
          /\ IF build = "part_000"
             THEN \* const backendHealth = await checkBackendHealth()
                  /\ pc' = [pc EXCEPT ![r] = "post_fetch"]
                  /\ net' = [net EXCEPT ![r] = checkBackendHealthFetch]
                  /\ fetches' = [fetches EXCEPT ![r] = @ + 1]
             ELSE /\ pc' = [pc EXCEPT ![r] = "done"]
                  /\ UNCHANGED <<net, fetches>>

\* The wrapped handler from the settling of `await routeHandler(...)` to its
\* next await or its end.  `settled` is what the try/catch produced and
\* `innerLogs` the lines the inner handler wrote as it finished.
Continue(r, settled, innerLogs) ==
  IF settled.thrown # {}
  THEN \* buildErrorResponse threw inside the catch block: the call rejects
       /\ pc' = [pc EXCEPT ![r] = "raised"]
       /\ raised' = [raised EXCEPT ![r] = settled.thrown]
       /\ console' = [console EXCEPT ![r] = @ \o innerLogs \o settled.logs]
       /\ UNCHANGED <<response, responseTime, net, fetches>>
  ELSE LET resp == CHOOSE x \in settled.response : TRUE
           ms == now - Coalesce(startTime, 0)
       IN /\ response' = [response EXCEPT ![r] = {resp}]
          /\ responseTime' = [responseTime EXCEPT ![r] = ms]
          /\ console' = [console EXCEPT ![r] =
                          @ \o innerLogs \o settled.logs
                            \o logger(CompletedLine(r, request[r], resp.status, ms))]
          /\ UNCHANGED raised
          /\ IF build = "part_000"
             THEN \* const backendHealth = await checkBackendHealth()
                  /\ pc' = [pc EXCEPT ![r] = "post_fetch"]
                  /\ net' = [net EXCEPT ![r] = checkBackendHealthFetch]
                  /\ fetches' = [fetches EXCEPT ![r] = @ + 1]
             ELSE /\ pc' = [pc EXCEPT ![r] = "done"]
                  /\ UNCHANGED <<net, fetches>>

Returned(resp) == [thrown |-> {}, response |-> {resp}, logs |-> <<>>]

\* An inner handler other than the health route settles.
InnerSettle(r) ==
  /\ pc[r] = "inner"
  /\ IF routeHandler.kind = "returns"
     THEN Continue(r, Returned(routeHandler.response), <<>>)
     ELSE Continue(r, buildErrorResponse(routeHandler.err, r), <<>>)
  /\ UNCHANGED <<NODE_ENV, VERCEL_GIT_COMMIT_SHA, build, now, startTime,
                 routeHandler, gitSha,
                 request, backendHealth, invokedAt>>

\* The health route resumes with the reply to its probe and returns.
HealthResume(r) ==
  /\ pc[r] = "inner_fetch"
  /\ net[r].kind \in {"response", "failure"}
  /\ LET probe == checkBackendHealthResult(net[r], r)
     IN /\ backendHealth' = [backendHealth EXCEPT ![r] = {probe.result}]
        /\ Continue(r, Returned(GET(probe.result)), probe.logs)
  /\ UNCHANGED <<NODE_ENV, VERCEL_GIT_COMMIT_SHA, build, now, startTime,
                 routeHandler, gitSha,
                 request, invokedAt>>

\* The wrapped handler of part_000 resumes with the reply to its own probe,
\* logs the backend line and returns the response.
PostResume(r) ==
  /\ pc[r] = "post_fetch"
  /\ net[r].kind \in {"response", "failure"}
  /\ LET probe == checkBackendHealthResult(net[r], r)
     IN /\ backendHealth' = [backendHealth EXCEPT ![r] = {probe.result}]
        /\ console' = [console EXCEPT ![r] =
                        @ \o probe.logs
                          \o logger(BackendLine(r, request[r], probe.result))]
  /\ net' = [net EXCEPT ![r] = NoMsg]
  /\ pc' = [pc EXCEPT ![r] = "done"]
  /\ UNCHANGED <<NODE_ENV, VERCEL_GIT_COMMIT_SHA, build, now, startTime,
                 routeHandler, gitSha,
                 request, response, responseTime, raised, invokedAt, fetches>>

\* The caller has the outcome of the invocation (a response or a raised
\* value); the next invocation starts with fresh locals.
Collect(r) ==
  /\ pc[r] \in {"done", "raised"}
  /\ pc' = [pc EXCEPT ![r] = "idle"]
  /\ net' = [net EXCEPT ![r] = NoMsg]
  /\ response' = [response EXCEPT ![r] = {}]
  /\ responseTime' = [responseTime EXCEPT ![r] = 0]
  /\ backendHealth' = [backendHealth EXCEPT ![r] = {}]
  /\ raised' = [raised EXCEPT ![r] = {}]
  /\ console' = [console EXCEPT ![r] = <<>>]
  /\ invokedAt' = [invokedAt EXCEPT ![r] = 0]
  /\ fetches' = [fetches EXCEPT ![r] = 0]
  /\ UNCHANGED <<NODE_ENV, VERCEL_GIT_COMMIT_SHA, build, now, startTime,
                 routeHandler, gitSha, request>>

Next ==
  \/ Tick
  \/ LoadRoute
  \/ \E r \in Reqs : Invoke(r)
  \/ \E r \in Reqs : Deliver(r)
  \/ \E r \in Reqs : InnerSettle(r)
  \/ \E r \in Reqs : HealthResume(r)
  \/ \E r \in Reqs : PostResume(r)
  \/ \E r \in Reqs : Collect(r)

Spec == Init /\ [][Next]_vars

\* ================================================================ claims

\* What the claims call a framework control-flow signal: an Error whose own
\* `digest` is a string beginning with the characters N, E, X, T, _.
FrameworkSignal(e) ==
  /\ e.class # "none"
  /\ e.digest.present
  /\ e.digest.type = "string"
  /\ Len(e.digest.chars) >= 5
  /\ e.digest.chars[1] = "N" /\ e.digest.chars[2] = "E"
  /\ e.digest.chars[3] = "X" /\ e.digest.chars[4] = "T"
  /\ e.digest.chars[5] = "_"

Throws == routeHandler.kind = "throws"
Settled(r) == pc[r] \in {"post_fetch", "done", "raised"}
Kinds(r) == [i \in DOMAIN console[r] |-> console[r][i].kind]
HasLine(r, k) == \E i \in DOMAIN console[r] : console[r][i].kind = k

\* C1: when the inner handler throws a framework control-flow signal, the
\* wrapped handler produces no response, logs no completion and raises that
\* same object to its caller, also when the object is a ZodError or an
\* ApiError.
C1_SignalIsReRaised ==
  \A r \in Reqs :
    (Throws /\ FrameworkSignal(routeHandler.err) /\ pc[r] \notin {"idle", "inner"})
      => /\ pc[r] = "raised"
         /\ raised[r] = {routeHandler.err}
         /\ response[r] = {}
         /\ ~HasLine(r, "completed")

C1_Witness ==
  \E r \in Reqs :
    /\ pc[r] = "raised"
    /\ Throws
    /\ routeHandler.err.class = "ZodError"
    /\ Len(routeHandler.err.issues) > 0
    /\ raised[r] = {routeHandler.err}

\* C2: an invocation raises to its caller only when the inner handler threw
\* a framework control-flow signal; in every other case it ends with a
\* response: the inner handler's own on a normal return, an ok:false response
\* when it threw.
C2_OnlySignalsAreRaised ==
  \A r \in Reqs :
    /\ (pc[r] = "raised" \/ raised[r] # {})
         => (Throws /\ FrameworkSignal(routeHandler.err))
    /\ (Settled(r) /\ ~(Throws /\ FrameworkSignal(routeHandler.err)))
         => /\ Cardinality(response[r]) = 1
            /\ \A resp \in response[r] :
                 /\ routeHandler.kind = "returns" => resp = routeHandler.response
                 /\ Throws => resp.body.ok = FALSE

C2_Witness ==
  \E r \in Reqs :
    /\ pc[r] = "done"
    /\ Throws
    /\ routeHandler.err.class = "none"
    /\ routeHandler.err.digest.present
    /\ \A resp \in response[r] : resp.body.ok = FALSE
    /\ response[r] # {}

\* C3: a thrown value that is neither a framework signal, a ZodError nor an
\* ApiError is answered with status 500 and the body
\* { ok: false, error: "Internal server error" }, whatever its message.
C3_UnknownIs500 ==
  \A r \in Reqs :
    ( /\ Throws
      /\ Settled(r)
      /\ ~FrameworkSignal(routeHandler.err)
      /\ routeHandler.err.class \notin {"ZodError", "ApiError"} )
      => response[r] =
           {[status |-> 500,
             body |-> [ok |-> FALSE, error |-> "Internal server error"]]}

C3_Witness ==
  \E r \in Reqs :
    /\ pc[r] = "done"
    /\ Throws
    /\ routeHandler.err.class = "Error"
    /\ routeHandler.err.message = "db password"
    /\ \E resp \in response[r] : resp.status = 500

\* C4: a thrown ApiError that is no framework signal is answered with its own
\* status and the body { ok: false, error: message }, without an issues field;
\* an ApiError whose status was never assigned has status 500, and one built
\* without a message has the message "Internal Error".
C4_ApiErrorStatusAndMessage ==
  /\ \A r \in Reqs :
       ( /\ Throws
         /\ Settled(r)
         /\ routeHandler.err.class = "ApiError"
         /\ ~FrameworkSignal(routeHandler.err) )
         => response[r] =
              {[status |-> routeHandler.err.status,
                body |-> [ok |-> FALSE, error |-> routeHandler.err.message]]}
  /\ \A m \in ApiMessages, st \in ApiStatuses, d \in Digests :
       /\ st = {} => ApiError(m, st, d).status = 500
       /\ st # {} => {ApiError(m, st, d).status} = st
       /\ m = {} => ApiError(m, st, d).message = "Internal Error"
       /\ m # {} => {ApiError(m, st, d).message} = m

C4_Witness ==
  \E r \in Reqs :
    /\ pc[r] = "done"
    /\ Throws
    /\ routeHandler.err.class = "ApiError"
    /\ response[r] =
         {[status |-> 404, body |-> [ok |-> FALSE, error |-> "Unauthorized"]]}

\* C5: a thrown ZodError that is no framework signal is answered with status
\* 400 and the body { ok: false, error: "Validation Error", issues } whose
\* issues are the error's own, in the same order; no other response carries
\* an issues field.
C5_ZodErrorIs400WithIssues ==
  \A r \in Reqs :
    /\ ( /\ Throws
         /\ Settled(r)
         /\ routeHandler.err.class = "ZodError"
         /\ ~FrameworkSignal(routeHandler.err) )
         => response[r] =
              {[status |-> 400,
                body |-> [ok |-> FALSE, error |-> "Validation Error",
                          issues |-> routeHandler.err.issues]]}
    /\ \A resp \in response[r] :
         "issues" \in DOMAIN resp.body
           => (Throws /\ routeHandler.err.class = "ZodError")

C5_Witness ==
  \E r \in Reqs :
    /\ pc[r] = "done"
    /\ \E resp \in response[r] :
         /\ resp.status = 400
         /\ resp.body.issues = <<"too_small", "invalid_type">>

\* The verdict the claims expect for a reply: healthy exactly for a response
\* whose status is one of 200..299.
ExpectedVerdict(reply) ==
  IF reply.kind = "response" /\ reply.status \in 200..299
  THEN "Backend is healthy" ELSE "Backend is unhealthy"

Replied(r) == net[r].kind \in {"response", "failure"}

\* How many probes an invocation has begun, by where it stands.
ProbesBegun(r) ==
  LET inner == IF routeHandler = HealthRoute THEN 1 ELSE 0
  IN CASE pc[r] = "inner_fetch" -> 1
       [] pc[r] = "post_fetch" -> inner + 1
       [] pc[r] = "done" -> IF build = "part_000" THEN inner + 1 ELSE 0
       [] OTHER -> 0

\* C6: every call of checkBackendHealth issues one GET to
\* <base_url>/backend-health; it returns "Backend is healthy" exactly when
\* the reply is a response with a 2xx status and "Backend is unhealthy" for
\* every other status and for a transport failure, and it never raises.
C6_ProbeVerdict ==
  [][\A r \in Reqs :
       /\ (pc[r] \in {"inner_fetch", "post_fetch"} /\ pc'[r] # pc[r])
            => /\ Replied(r)
               /\ backendHealth'[r] = {ExpectedVerdict(net[r])}
               /\ pc'[r] # "raised"
               /\ raised'[r] = {}
       /\ (net'[r].kind = "request")
            => /\ net'[r].method = "GET"
               /\ net'[r].url = <<NEXT_PUBLIC_BACKEND_URL, "/backend-health">>
       /\ (pc'[r] # "raised" => fetches'[r] = ProbesBegun(r)')
    ]_vars

C6_Witness ==
  \E r \in Reqs :
    /\ pc[r] = "done"
    /\ backendHealth[r] = {"Backend is unhealthy"}
    /\ HasLine(r, "probe_error")
    /\ fetches[r] = 2

\* The frontendHealth the claims expect: the first 7 characters of the commit
\* identifier, or "local" when it is unset.
ExpectedFrontendHealth ==
  IF VERCEL_GIT_COMMIT_SHA = {} THEN <<"l", "o", "c", "a", "l">>
  ELSE LET sha == CHOOSE v \in VERCEL_GIT_COMMIT_SHA : TRUE
       IN [i \in 1..(IF Len(sha) < 7 THEN Len(sha) ELSE 7) |-> sha[i]]

HealthBody(v) ==
  [ok |-> TRUE,
   data |-> [backendHealth |-> v, frontendHealth |-> ExpectedFrontendHealth]]

\* C7: GET /api/health answers 200 with { ok: true, data: { backendHealth,
\* frontendHealth } } whatever the backend does: backendHealth is the verdict
\* on the reply to the route's probe (unhealthy when unreachable, healthy on a
\* 2xx), frontendHealth is the first 7 characters of the commit identifier or
\* "local"; the request never raises, and a later probe of the wrapper does
\* not change the response.
C7_HealthRouteAlways200 ==
  [][\A r \in Reqs :
       routeHandler = HealthRoute =>
         /\ (pc[r] = "inner_fetch" /\ pc'[r] # pc[r])
              => response'[r] =
                   {[status |-> 200, body |-> HealthBody(ExpectedVerdict(net[r]))]}
         /\ (pc[r] = "post_fetch" /\ pc'[r] # pc[r])
              => (pc'[r] = "done" /\ response'[r] = response[r])
         /\ pc'[r] # "raised"
    ]_vars

C7_Witness ==
  \E r \in Reqs :
    /\ pc[r] = "done"
    /\ routeHandler = HealthRoute
    /\ \E sha \in VERCEL_GIT_COMMIT_SHA : Len(sha) > 7
    /\ HasLine(r, "probe_error")
    /\ \E resp \in response[r] :
         /\ resp.status = 200
         /\ resp.body.data.backendHealth = "Backend is unhealthy"
         /\ Len(resp.body.data.frontendHealth) = 7

\* C8: under NODE_ENV "test" no invocation writes a line to the process
\* streams, whatever the handler's outcome and the outcome of a probe.
C8_QuietInTestMode ==
  NODE_ENV = "test" => \A r \in Reqs : console[r] = <<>>

\* C9 (as claimed): in an invocation that resolves to a response the incoming
\* line is first and the completion line is last: no line follows it and no
\* probe is in flight once it is logged.
C9_CompletionLineIsLast ==
  \A r \in Reqs :
    /\ \A i \in DOMAIN console[r] : console[r][i].kind = "incoming" => i = 1
    /\ \A i \in DOMAIN console[r] :
         console[r][i].kind = "completed" => i = Len(console[r])
    /\ ~(HasLine(r, "completed") /\ net[r].kind = "request")

Pre == {"probe_error", "unhandled"}
Post == {"probe_error", "backend"}

\* C9 (amended): in an invocation that has resolved to a response, the
\* incoming line is first and the one completion line, which carries the
\* request's method and path, the response's status and the elapsed time the
\* wrapper computed, follows every line the inner handler caused.  With the
\* health.ts that has no checkBackendHealth the completion line is last and
\* no probe is made.  With the health.ts that exports checkBackendHealth the
\* wrapper begins one more probe after the completion line; that probe's
\* error line, if any, and then the backend line follow the completion line,
\* and the backend line is last.
C9_LineOrder ==
  \A r \in Reqs :
    pc[r] = "done" =>
      LET k == Kinds(r)
          n == Len(k)
          inner == IF routeHandler = HealthRoute THEN 1 ELSE 0
      IN /\ \A i \in 1..n : k[i] = "incoming" => i = 1
         /\ \A i, j \in 1..n : (k[i] = "completed" /\ k[j] = "completed") => i = j
         /\ \A i, j \in 1..n :
              (k[j] = "completed" /\ i < j) => (k[i] \in Pre \/ i = 1)
         /\ \A i, j \in 1..n :
              (k[i] = "completed" /\ i < j) => (k[j] \in Post /\ j <= i + 2)
         /\ \A i \in 1..n : k[i] = "backend" => i = n
         /\ \A i \in 1..n :
              k[i] = "completed" =>
                /\ console[r][i].method = request[r].method
                /\ console[r][i].url = request[r].pathname
                /\ console[r][i].ms = responseTime[r]
                /\ \A resp \in response[r] : console[r][i].status = resp.status
         /\ build = "part_001" =>
              /\ fetches[r] = 0
              /\ \A i \in 1..n : k[i] = "completed" => i = n
         /\ build = "part_000" => fetches[r] = inner + 1
         /\ NODE_ENV # "test" =>
              /\ n >= 2
              /\ k[1] = "incoming"
              /\ \E i \in 2..n : k[i] = "completed"
              /\ k[n] = IF build = "part_000" THEN "backend" ELSE "completed"

C9_Witness ==
  \E r \in Reqs :
    /\ pc[r] = "done"
    /\ build = "part_000"
    /\ Kinds(r) = <<"incoming", "probe_error", "completed", "probe_error", "backend">>

\* C10: the elapsed milliseconds of the completion line are the time from the
\* start of that invocation to the completion of its inner handler.
C10_ElapsedIsPerInvocation ==
  [][\A r \in Reqs :
       (response[r] = {} /\ response'[r] # {}) =>
         \A i \in DOMAIN console'[r] :
           console'[r][i].kind = "completed"
             => console'[r][i].ms = now - invokedAt[r]
    ]_vars

====
